---------------------------- MODULE Spec2Model ----------------------------
(***************************************************************************)
(* A model of src/main.ts of the semver GitHub action: the Version         *)
(* constructor, filterAndSortVersions, bumpVersion,                        *)
(* getIncrementLevelFromTitle and the run() pipeline.                      *)
(*                                                                         *)
(* Strings are sequences of one-character strings.  The numbers of a       *)
(* semantic version are sequences of decimal digits (most significant      *)
(* first, no leading zero): JavaScript numbers are exact up to 2^53, which *)
(* is beyond the integers of the model checker, and the library's check    *)
(* against Number.MAX_SAFE_INTEGER is part of the behaviour modelled.      *)
(***************************************************************************)
EXTENDS Integers, Sequences, FiniteSets, TLC

VARIABLES
  pc,                         \* where run() is
  source, prefix, includePrereleases,      \* the action's inputs
  res,                        \* the names the paginated request returned
  allVersions, filteredAndSortedVersions, currentVersion,
  title, incrementLevel, nextVersion,      \* run()'s locals
  error,                      \* the exception on its way to the catch block
  outputs,                    \* the core.setOutput calls, in order
  failed                      \* whether core.setFailed was called

vars == <<pc, source, prefix, includePrereleases, res, allVersions,
          filteredAndSortedVersions, currentVersion, title, incrementLevel,
          nextVersion, error, outputs, failed>>

\* Bounds of the model: the number of names a paginated request returns, and
\* the number of pieces a commit message is put together from.
MaxLabels == 3

MaxTokens == 3

\* no match, null, undefined: a value no string, list or object equals
Null == <<>>

NullSemVer == [null |-> TRUE]

Undefined == [undefined |-> TRUE]

----------------------------------------------------------------------------
(* Characters and numbers *)

Digit == {"0", "1", "2", "3", "4", "5", "6", "7", "8", "9"}

DigitVal == "0" :> 0 @@ "1" :> 1 @@ "2" :> 2 @@ "3" :> 3 @@ "4" :> 4 @@
            "5" :> 5 @@ "6" :> 6 @@ "7" :> 7 @@ "8" :> 8 @@ "9" :> 9

DigitChar == <<"0", "1", "2", "3", "4", "5", "6", "7", "8", "9">>

\* s is a non-empty run of digit characters
IsDigits(s) == Len(s) > 0 /\ \A i \in 1..Len(s) : s[i] \in Digit

\* the library's numeric identifier, 0|[1-9]\d* : no leading zero
IsNumericIdentifier(s) == IsDigits(s) /\ (Len(s) > 1 => s[1] # "0")

\* +m[k] : the number a numeric identifier denotes
ToNumber(s) == [i \in 1..Len(s) |-> DigitVal[s[i]]]

\* `${n}` : the decimal string of a number
NumToString(n) == [i \in 1..Len(n) |-> DigitChar[n[i] + 1]]

\* a < b on numbers
NumLess(a, b) ==
  \/ Len(a) < Len(b)
  \/ /\ Len(a) = Len(b)
     /\ \E k \in 1..Len(a) : /\ a[k] < b[k]
                             /\ \A j \in 1..(k - 1) : a[j] = b[j]

\* Number.MAX_SAFE_INTEGER = 2^53 - 1 = 9007199254740991
MAX_SAFE_INTEGER == <<9, 0, 0, 7, 1, 9, 9, 2, 5, 4, 7, 4, 0, 9, 9, 1>>

RECURSIVE NumInc(_)
\* n++
NumInc(n) ==
  IF Len(n) = 0 THEN <<1>>
  ELSE IF n[Len(n)] < 9
       THEN SubSeq(n, 1, Len(n) - 1) \o <<n[Len(n)] + 1>>
       ELSE NumInc(SubSeq(n, 1, Len(n) - 1)) \o <<0>>

Zero == <<0>>

----------------------------------------------------------------------------
(* The inputs the model draws from *)

MAJOR == <<"(", "M", "A", "J", "O", "R", ")">>

MINOR == <<"(", "M", "I", "N", "O", "R", ")">>

PATCH == <<"(", "P", "A", "T", "C", "H", ")">>

Str_v100 == <<"v", "1", ".", "0", ".", "0">>

Str_v110 == <<"v", "1", ".", "1", ".", "0">>

Str_v200beta == <<"v", "2", ".", "0", ".", "0", "-", "b", "e", "t", "a">>

Str_110 == <<"1", ".", "1", ".", "0">>

Str_rc == <<"r", "c">>

Str_v3 == <<"v", "3">>

Str_v0123 == <<"v", "0", "1", ".", "2", ".", "3">>

Str_000 == <<"0", ".", "0", ".", "0">>

Str_MaxSafe == <<"9", "0", "0", "7", "1", "9", "9", "2", "5", "4", "7", "4",
                 "0", "9", "9", "1">>

Str_MaxSafe1 == <<"9", "0", "0", "7", "1", "9", "9", "2", "5", "4", "7", "4",
                  "0", "9", "9", "2">>

\* the tag and release names of a run: v1.0.0 v1.1.0 v2.0.0-beta 1.1.0 rc v3
\* v01.2.3 9007199254740991.0.0
Labels == {Str_v100, Str_v110, Str_v200beta, Str_110, Str_rc, Str_v3,
           Str_v0123, Str_MaxSafe \o <<".", "0", ".", "0">>}

LabelLists == UNION {[1..n -> Labels] : n \in 0..MaxLabels}

\* the names the Version constructor is tried on alone: text, three groups
\* of digits with dots between, text; and names with fewer groups
Groups == {<<"0">>, <<"1">>, <<"9">>, <<"0", "1">>, <<"1", "0">>,
           Str_MaxSafe, Str_MaxSafe1}

Before == {<<>>, <<"v">>, <<"7", ".">>, <<"1", ".", "x">>}

Behind == {<<>>, <<"-", "b", "e", "t", "a">>, <<".", "4">>}

RawNames ==
  {b \o g1 \o <<".">> \o g2 \o <<".">> \o g3 \o e :
     b \in Before, g1 \in Groups, g2 \in Groups, g3 \in Groups, e \in Behind}
  \cup {<<>>, Str_rc, Str_v3, <<"1", ".", "2">>, <<"1", ".", ".", "2", ".", "3">>}
  \cup Labels

\* the prefix input: "" (the default) and "v"
Prefixes == {<<>>, <<"v">>}

\* the source input
Sources == {"tags", "releases", "commits", ""}

ReleaseTypes == {"major", "minor", "patch"}

\* head_commit.message ?? '' in a run: "", "fix (PATCH)", "(MAJOR) rewrite",
\* "(PATCH) (MINOR)", "(MINOR)(MAJOR)"
Titles ==
  { <<>>,
    <<"f", "i", "x", " ">> \o PATCH,
    MAJOR \o <<" ", "r", "e", "w", "r", "i", "t", "e">>,
    PATCH \o <<" ">> \o MINOR,
    MINOR \o MAJOR }

\* the pieces the texts given to getIncrementLevelFromTitle alone are put
\* together from: the markers, (major), (MAJOR without its bracket, and "fix "
Tokens == {MAJOR, MINOR, PATCH, <<"(", "m", "a", "j", "o", "r", ")">>,
           <<"(", "M", "A", "J", "O", "R">>, <<"f", "i", "x", " ">>}

RECURSIVE Concat(_)
Concat(ts) == IF Len(ts) = 0 THEN <<>> ELSE Head(ts) \o Concat(Tail(ts))

TitleTexts == {Concat(ts) : ts \in UNION {[1..n -> Tokens] : n \in 0..MaxTokens}}

----------------------------------------------------------------------------
(* The semver library, as far as main.ts calls it *)

\* a thrown exception, as a value
Throw(msg) == [err |-> msg]

IsThrow(x) == "err" \in DOMAIN x

RECURSIVE DigitRun(_, _)
\* \d+ from position i, greedy: the length of the run of digits that starts at i
DigitRun(s, i) ==
  IF i <= Len(s) /\ s[i] \in Digit THEN 1 + DigitRun(s, i + 1) ELSE 0

IsDot(s, i) == i <= Len(s) /\ s[i] = "."

Max(S) == CHOOSE x \in S : \A y \in S : y <= x

Min(S) == CHOOSE x \in S : \A y \in S : x <= y

\* The three groups of a string \d+\.\d+\.\d+ , Null for any other string.
MainGroups(v) ==
  LET a == DigitRun(v, 1)
      b == DigitRun(v, a + 2)
      c == DigitRun(v, a + b + 3)
  IN IF /\ a > 0 /\ IsDot(v, a + 1) /\ b > 0 /\ IsDot(v, a + b + 2) /\ c > 0
        /\ a + b + c + 2 = Len(v)
     THEN <<SubSeq(v, 1, a), SubSeq(v, a + 2, a + b + 1),
            SubSeq(v, a + b + 3, a + b + c + 2)>>
     ELSE Null

\* n > Number.MAX_SAFE_INTEGER for the number a group denotes
TooBig(g) == NumLess(MAX_SAFE_INTEGER, ToNumber(g))

\* The SemVer of the version string v whose groups are g, or what the
\* constructor throws: a group with a leading zero is no numeric identifier
\* of the strict grammar, and a number above Number.MAX_SAFE_INTEGER is
\* refused.
SemVerOfGroups(v, g) ==
  IF \E k \in 1..3 : ~IsNumericIdentifier(g[k])
  THEN Throw("TypeError: Invalid Version")
  ELSE IF TooBig(g[1]) THEN Throw("TypeError: Invalid major version")
  ELSE IF TooBig(g[2]) THEN Throw("TypeError: Invalid minor version")
  ELSE IF TooBig(g[3]) THEN Throw("TypeError: Invalid patch version")
  ELSE [raw |-> v, major |-> ToNumber(g[1]), minor |-> ToNumber(g[2]),
        patch |-> ToNumber(g[3]), prerelease |-> <<>>, build |-> <<>>]

\* new semver.SemVer(v), strict.  Every call in main.ts passes a string
\* \d+\.\d+\.\d+ (the constructor's regex match, '0.0.0', or the raw of
\* another SemVer), so the prerelease and build parts of the grammar never
\* apply and are empty; the CASE has no arm for another string.
NewSemVer(v) == CASE MainGroups(v) # Null -> SemVerOfGroups(v, MainGroups(v))

\* SemVer.format(): major.minor.patch, then -prerelease when there is one
Format(sv) ==
  NumToString(sv.major) \o <<".">> \o NumToString(sv.minor) \o <<".">>
    \o NumToString(sv.patch)

\* SemVer.inc(release) for release in major, minor, patch; raw is set to the
\* formatted version.  A major increment of a prerelease of x.0.0 keeps x;
\* a minor one of x.y.0 keeps y; a patch one of a prerelease keeps the patch.
Inc(sv, release) ==
  LET pre == Len(sv.prerelease) > 0
      z == sv.minor = Zero /\ sv.patch = Zero
      n == CASE release = "major" ->
                  [sv EXCEPT !.major = IF pre /\ z THEN @ ELSE NumInc(@),
                             !.minor = Zero, !.patch = Zero,
                             !.prerelease = <<>>]
             [] release = "minor" ->
                  [sv EXCEPT !.minor = IF pre /\ sv.patch = Zero THEN @
                                       ELSE NumInc(@),
                             !.patch = Zero, !.prerelease = <<>>]
             [] release = "patch" ->
                  [sv EXCEPT !.patch = IF pre THEN @ ELSE NumInc(@),
                             !.prerelease = <<>>]
  IN [n EXCEPT !.raw = Format(n)]

Sign(a, b) == IF NumLess(a, b) THEN -1 ELSE IF NumLess(b, a) THEN 1 ELSE 0

\* semver.compare(a, b): major, minor, patch, then the prerelease (a version
\* with one is below the same version without; both are empty for every
\* SemVer the constructor builds); build is ignored.
Compare(a, b) ==
  IF Sign(a.major, b.major) # 0 THEN Sign(a.major, b.major)
  ELSE IF Sign(a.minor, b.minor) # 0 THEN Sign(a.minor, b.minor)
  ELSE IF Sign(a.patch, b.patch) # 0 THEN Sign(a.patch, b.patch)
  ELSE IF Len(a.prerelease) > 0 /\ Len(b.prerelease) = 0 THEN -1
  ELSE IF Len(a.prerelease) = 0 /\ Len(b.prerelease) > 0 THEN 1
  ELSE 0

\* The coerce regex (^|[^\d])(\d{1,16})(?:\.(\d{1,16}))?(?:\.(\d{1,16}))?(?:$|[^\d])
\* with its digits starting at d.  A group is greedy and an optional group is
\* tried present before absent, so the first match has the longest first
\* group a for which the rest matches, then the longest second group b (0:
\* absent), then the longest third group c.
CoerceEnd(s, j) == j > Len(s) \/ s[j] \notin Digit

Upto16(r) == IF r < 16 THEN r ELSE 16

\* the lengths an optional group at j may have: 0, or "." and 1 to 16 digits
Opt(s, j) == IF IsDot(s, j) THEN 0..Upto16(DigitRun(s, j + 1)) ELSE {0}

\* the position behind an optional group of length b at j
After(j, b) == IF b = 0 THEN j ELSE j + 1 + b

Ok3(s, j) == {c \in Opt(s, j) : CoerceEnd(s, After(j, c))}

Ok2(s, j) == {b \in Opt(s, j) : Ok3(s, After(j, b)) # {}}

Ok1(s, d) == {a \in 1..Upto16(DigitRun(s, d)) : Ok2(s, d + a) # {}}

\* the group of length n at i, "0" for an absent optional group
GroupOr0(s, i, n) == IF n = 0 THEN <<"0">> ELSE SubSeq(s, i, i + n - 1)

CoerceGroups3(s, d, a, b, c) ==
  <<SubSeq(s, d, d + a - 1), GroupOr0(s, d + a + 1, b),
    GroupOr0(s, After(d + a, b) + 1, c)>>

CoerceGroups2(s, d, a, b) ==
  CoerceGroups3(s, d, a, b, Max(Ok3(s, After(d + a, b))))

CoerceGroups1(s, d, a) == CoerceGroups2(s, d, a, Max(Ok2(s, d + a)))

\* the groups of the first match with its digits at d, Null if there is none
CoerceAt(s, d) ==
  IF Ok1(s, d) = {} THEN Null ELSE CoerceGroups1(s, d, Max(Ok1(s, d)))

RECURSIVE CoerceFrom(_, _)
\* the first match of the coerce regex in s that starts at i or later: at
\* the start of s the digits may come first (^), elsewhere one non-digit
\* comes before them
CoerceFrom(s, i) ==
  IF i > Len(s) THEN Null
  ELSE IF i = 1 /\ Ok1(s, 1) # {} THEN CoerceAt(s, 1)
  ELSE IF s[i] \notin Digit /\ Ok1(s, i + 1) # {} THEN CoerceAt(s, i + 1)
  ELSE CoerceFrom(s, i + 1)

CoerceMatch(s) == CoerceFrom(s, 1)

\* parse() returns null where the SemVer constructor throws
NullIfThrow(sv) == IF IsThrow(sv) THEN NullSemVer ELSE sv

\* the match m as major.minor.patch, parsed
CoerceParse(m) ==
  IF m = Null THEN NullSemVer
  ELSE NullIfThrow(NewSemVer(m[1] \o <<".">> \o m[2] \o <<".">> \o m[3]))

\* semver.coerce(s): null when there is no match or the parse fails
Coerce(s) == CoerceParse(CoerceMatch(s))

----------------------------------------------------------------------------
(* main.ts *)

\* raw.match(/(\d+\.\d+\.\d+)/) tried at i: the lengths the first group may
\* have so that a dot, digits, a dot and a digit follow
FirstGroups(raw, i) ==
  {a \in 1..DigitRun(raw, i) :
     /\ IsDot(raw, i + a)
     /\ \E b \in 1..DigitRun(raw, i + a + 1) :
          /\ IsDot(raw, i + a + 1 + b)
          /\ DigitRun(raw, i + a + b + 2) > 0}

\* with the first group of length a: the lengths the second may have
SecondGroups(raw, i, a) ==
  {b \in 1..DigitRun(raw, i + a + 1) :
     /\ IsDot(raw, i + a + 1 + b)
     /\ DigitRun(raw, i + a + b + 2) > 0}

\* the match at i with groups of lengths a and b and the longest third group
MatchOf(raw, i, a, b) ==
  SubSeq(raw, i, i + a + b + 1 + DigitRun(raw, i + a + b + 2))

MatchWithFirst(raw, i, a) == MatchOf(raw, i, a, Max(SecondGroups(raw, i, a)))

RECURSIVE MatchFrom(_, _)
\* the first match at i or later, each group greedy; Null if there is none
MatchFrom(raw, i) ==
  IF i > Len(raw) THEN Null
  ELSE IF FirstGroups(raw, i) # {}
       THEN MatchWithFirst(raw, i, Max(FirstGroups(raw, i)))
       ELSE MatchFrom(raw, i + 1)

\* versionMatch[0], Null when the regex matches nowhere
VersionMatch(raw) == MatchFrom(raw, 1)

\* the Version with raw and the SemVer sv, or sv if it is what was thrown
VersionWith(raw, sv) == IF IsThrow(sv) THEN sv ELSE [raw |-> raw, semver |-> sv]

\* lines 12-17 with versionMatch the result of the match
VersionOfMatch(raw, versionMatch) ==
  IF versionMatch # Null THEN VersionWith(raw, NewSemVer(versionMatch))
  ELSE VersionWith(raw, NewSemVer(Str_000))

\* new Version(raw): the Version, or what the SemVer constructor throws
NewVersion(raw) == VersionOfMatch(raw, VersionMatch(raw))

RECURSIVE Insert_Unstable(_, _)
\* Insert with >= for >: a Version goes before the Versions equal to it
Insert_Unstable(xs, v) ==
  IF Len(xs) = 0 THEN <<v>>
  ELSE IF Compare(v.semver, xs[Len(xs)].semver) >= 0
       THEN Insert_Unstable(SubSeq(xs, 1, Len(xs) - 1), v) \o <<xs[Len(xs)]>>
       ELSE xs \o <<v>>

RECURSIVE Insert(_, _)
\* the place of v in the sorted list xs under the comparator of line 83,
\* (x, y) => semver.compare(y.semver, x.semver): behind every element that
\* does not compare greater than v, so that equal elements keep their order
Insert(xs, v) ==
  IF Len(xs) = 0 THEN <<v>>
  ELSE IF Compare(v.semver, xs[Len(xs)].semver) > 0
       THEN Insert(SubSeq(xs, 1, Len(xs) - 1), v) \o <<xs[Len(xs)]>>
       ELSE xs \o <<v>>

RECURSIVE Sort(_)
\* Array.prototype.sort with that comparator: a stable sort
Sort(xs) ==
  IF Len(xs) = 0 THEN <<>>
  ELSE Insert(Sort(SubSeq(xs, 1, Len(xs) - 1)), xs[Len(xs)])

\* raw.startsWith(p)
StartsWith(raw, p) == Len(p) <= Len(raw) /\ SubSeq(raw, 1, Len(p)) = p

\* semver.coerce(raw) != null for the names of a run, worked out once
Coercible == [raw \in Labels \cup {Str_000} |-> Coerce(raw) # NullSemVer]

\* the callback of versions.filter, lines 66-80
Check(version, p, incl) ==
  LET check1 == Coercible[version.raw]
      check2 == IF ~incl /\ (Len(version.semver.build) # 0
                             \/ Len(version.semver.prerelease) # 0)
                THEN FALSE ELSE check1
  IN check2 /\ StartsWith(version.raw, p)

RECURSIVE Filter(_, _, _)
Filter(versions, p, incl) ==
  IF Len(versions) = 0 THEN <<>>
  ELSE (IF Check(Head(versions), p, incl) THEN <<Head(versions)>> ELSE <<>>)
         \o Filter(Tail(versions), p, incl)

filterAndSortVersions(versions, p, incl) == Sort(Filter(versions, p, incl))

\* new Version(sv.raw), line 94, or what was thrown before
VersionOfRaw(sv) == IF IsThrow(sv) THEN sv ELSE NewVersion(sv.raw)

\* tmp.semver.inc(level), or what the constructor of tmp threw
IncOf(tmp, level) == IF IsThrow(tmp) THEN tmp ELSE Inc(tmp.semver, level)

\* bumpVersion with inc applied to the argument's own semver
InPlace(version, bumped) ==
  [arg |-> [version EXCEPT !.semver = bumped], ret |-> VersionOfRaw(bumped)]

bumpVersion_InPlace(version, level) ==
  InPlace(version, Inc(version.semver, level))

\* bumpVersion that increments the patch whatever the level
bumpVersion_AlwaysPatch(version, level) ==
  [arg |-> version,
   ret |-> VersionOfRaw(IncOf(NewVersion(version.semver.raw), "patch"))]

\* bumpVersion, lines 89-95.  SemVer.inc changes its object in place, so the
\* result says what the call leaves in its argument (arg) beside what it
\* returns or throws (ret): inc is applied to tmp, a Version parsed anew from
\* the argument's semver.raw, and its raw is parsed once more by the
\* constructor, which may throw.
bumpVersion(version, level) ==
  [arg |-> version,
   ret |-> VersionOfRaw(IncOf(NewVersion(version.semver.raw), level))]

RECURSIVE IndexOf(_, _, _)
\* the first position at or after i where sub occurs in s, 0 if none
IndexOf(s, sub, i) ==
  IF i + Len(sub) - 1 > Len(s) THEN 0
  ELSE IF SubSeq(s, i, i + Len(sub) - 1) = sub THEN i
       ELSE IndexOf(s, sub, i + 1)

\* s.includes(sub)
Includes(s, sub) == IndexOf(s, sub, 1) # 0

\* getIncrementLevelFromTitle with (MINOR) looked for first
getIncrementLevelFromTitle_MinorFirst(t) ==
  IF Includes(t, MINOR) THEN "minor"
  ELSE IF Includes(t, MAJOR) THEN "major"
  ELSE "patch"

getIncrementLevelFromTitle(t) ==
  IF Includes(t, MAJOR) THEN "major"
  ELSE IF Includes(t, MINOR) THEN "minor"
  ELSE IF Includes(t, PATCH) THEN "patch"
  ELSE "patch"

----------------------------------------------------------------------------
(* run() *)

\* lines 111-118: the inputs are read and the client is created
Init ==
  /\ pc = "start"
  /\ source \in Sources
  /\ prefix \in Prefixes
  /\ includePrereleases \in BOOLEAN
  /\ res = <<>>
  /\ allVersions = <<>>
  /\ filteredAndSortedVersions = <<>>
  /\ currentVersion = Undefined
  /\ title = <<>>
  /\ incrementLevel = ""
  /\ nextVersion = Undefined
  /\ error = Undefined
  /\ outputs = <<>>
  /\ failed = FALSE

\* res.map(data => new Version(data.name)): what each constructor call makes
\* new Version(raw) for the names of a run, worked out once
VersionOf == [raw \in Labels \cup {Str_000} |-> NewVersion(raw)]

MapVersions(names) == [i \in 1..Len(names) |-> VersionOf[names[i]]]

\* the end of res.map with made what the constructor calls make: the first
\* exception ends the map and run()'s try block
Mapped(made, bad) ==
  /\ IF bad # {}
     THEN /\ error' = made[Min(bad)]
          /\ pc' = "catch"
          /\ UNCHANGED allVersions
     ELSE /\ allVersions' = made
          /\ pc' = "filter"
          /\ UNCHANGED error

Thrown(made) == {i \in 1..Len(made) : IsThrow(made[i])}

MapResult(made) == Mapped(made, Thrown(made))

\* getVersionsFromTags / getVersionsFromReleases with names as the reply of
\* the paginated request
GetVersions(names) ==
  /\ res' = names
  /\ MapResult(MapVersions(names))
  /\ UNCHANGED <<source, prefix, includePrereleases,
                 filteredAndSortedVersions, currentVersion, title,
                 incrementLevel, nextVersion, outputs, failed>>

\* lines 119-121
GetVersionsFromTags ==
  /\ pc = "start"
  /\ source = "tags"
  /\ \E names \in LabelLists : GetVersions(names)

\* lines 122-124
GetVersionsFromReleases ==
  /\ pc = "start"
  /\ source = "releases"
  /\ \E names \in LabelLists : GetVersions(names)

\* run() without its last else: an unknown source goes on with no versions
InvalidSource_FallsThrough ==
  /\ pc = "start"
  /\ source \notin {"tags", "releases"}
  /\ pc' = "filter"
  /\ UNCHANGED <<source, prefix, includePrereleases, res, allVersions,
                 filteredAndSortedVersions, currentVersion, title,
                 incrementLevel, nextVersion, error, outputs, failed>>

\* lines 125-127
InvalidSource ==
  /\ pc = "start"
  /\ source \notin {"tags", "releases"}
  /\ error' = Throw("Error: not a valid value for source")
  /\ pc' = "catch"
  /\ UNCHANGED <<source, prefix, includePrereleases, res, allVersions,
                 filteredAndSortedVersions, currentVersion, title,
                 incrementLevel, nextVersion, outputs, failed>>

\* lines 134-135 with sorted the result of filterAndSortVersions
Select(sorted) ==
  /\ filteredAndSortedVersions' = sorted
  /\ currentVersion' = IF Len(sorted) > 0 THEN sorted[1] ELSE VersionOf[Str_000]

\* lines 128-135
FilterAndSort ==
  /\ pc = "filter"
  /\ Select(filterAndSortVersions(allVersions, prefix, includePrereleases))
  /\ pc' = "bump"
  /\ UNCHANGED <<source, prefix, includePrereleases, res, allVersions, title,
                 incrementLevel, nextVersion, error, outputs, failed>>

\* getIncrementLevelFromTitle(t) for the texts of a run, worked out once
LevelOf == [t \in Titles |-> getIncrementLevelFromTitle(t)]

\* bumpVersion(v, level) for the Versions of a run, worked out once
BumpOf ==
  [v \in {VersionOf[raw] : raw \in {l \in DOMAIN VersionOf : ~IsThrow(VersionOf[l])}},
   level \in ReleaseTypes |-> bumpVersion(v, level)]

\* line 139 with r what bumpVersion does
Bumped(r) ==
  /\ currentVersion' = r.arg
  /\ IF IsThrow(r.ret)
     THEN /\ error' = r.ret
          /\ pc' = "catch"
          /\ UNCHANGED nextVersion
     ELSE /\ nextVersion' = r.ret
          /\ pc' = "emit"
          /\ UNCHANGED error

\* lines 137-139 with t as the text and then level as the increment
BumpBy(t, level) ==
  /\ title' = t
  /\ incrementLevel' = level
  /\ Bumped(BumpOf[currentVersion, level])
  /\ UNCHANGED <<source, prefix, includePrereleases, res, allVersions,
                 filteredAndSortedVersions, outputs, failed>>

\* lines 136-139
Bump ==
  /\ pc = "bump"
  /\ \E t \in Titles : BumpBy(t, LevelOf[t])

\* lines 140-144
SetOutputs ==
  /\ pc = "emit"
  /\ outputs' = outputs \o <<<<"currentVersion", currentVersion.semver.raw>>,
                             <<"nextVersion", nextVersion.semver.raw>>>>
  /\ pc' = "done"
  /\ UNCHANGED <<source, prefix, includePrereleases, res, allVersions,
                 filteredAndSortedVersions, currentVersion, title,
                 incrementLevel, nextVersion, error, failed>>

\* lines 145-150
Catch ==
  /\ pc = "catch"
  /\ failed' = TRUE
  /\ pc' = "done"
  /\ UNCHANGED <<source, prefix, includePrereleases, res, allVersions,
                 filteredAndSortedVersions, currentVersion, title,
                 incrementLevel, nextVersion, error, outputs>>

Next ==
  \/ GetVersionsFromTags
  \/ GetVersionsFromReleases
  \/ InvalidSource
  \/ FilterAndSort
  \/ Bump
  \/ SetOutputs
  \/ Catch

Spec == Init /\ [][Next]_vars

----------------------------------------------------------------------------
(* The Version constructor and bumpVersion, called on their own *)

InitVersion ==
  /\ pc = "construct"
  /\ source = "tags"
  /\ prefix = <<>>
  /\ includePrereleases = FALSE
  /\ res \in {<<raw>> : raw \in RawNames}
  /\ allVersions = <<>>
  /\ filteredAndSortedVersions = <<>>
  /\ currentVersion = Undefined
  /\ title = <<>>
  /\ incrementLevel = ""
  /\ nextVersion = Undefined
  /\ error = Undefined
  /\ outputs = <<>>
  /\ failed = FALSE

\* the end of a constructor call that made or threw made
Constructed(made) ==
  IF IsThrow(made)
  THEN /\ error' = made
       /\ pc' = "threw"
       /\ UNCHANGED currentVersion
  ELSE /\ currentVersion' = made
       /\ pc' = "constructed"
       /\ UNCHANGED error

\* new Version(raw), lines 9-19
Construct ==
  /\ pc = "construct"
  /\ Constructed(NewVersion(res[1]))
  /\ UNCHANGED <<source, prefix, includePrereleases, res, allVersions,
                 filteredAndSortedVersions, title, incrementLevel, nextVersion,
                 outputs, failed>>

\* the end of a call of bumpVersion that did r
BumpReturned(r) ==
  /\ currentVersion' = r.arg
  /\ IF IsThrow(r.ret)
     THEN /\ error' = r.ret
          /\ pc' = "bumpThrew"
          /\ UNCHANGED nextVersion
     ELSE /\ nextVersion' = r.ret
          /\ pc' = "bumped"
          /\ UNCHANGED error

\* bumpVersion(version, incrementLevel), lines 89-95
CallBump ==
  /\ pc = "constructed"
  /\ \E level \in ReleaseTypes :
       /\ incrementLevel' = level
       /\ BumpReturned(bumpVersion(currentVersion, level))
  /\ UNCHANGED <<source, prefix, includePrereleases, res, allVersions,
                 filteredAndSortedVersions, title, outputs, failed>>

VersionNext == Construct \/ CallBump

SpecVersion == InitVersion /\ [][VersionNext]_vars

----------------------------------------------------------------------------
(* getIncrementLevelFromTitle, called on its own *)

InitTitle ==
  /\ pc = "title"
  /\ source = "tags"
  /\ prefix = <<>>
  /\ includePrereleases = FALSE
  /\ res = <<>>
  /\ allVersions = <<>>
  /\ filteredAndSortedVersions = <<>>
  /\ currentVersion = Undefined
  /\ title \in TitleTexts
  /\ incrementLevel = ""
  /\ nextVersion = Undefined
  /\ error = Undefined
  /\ outputs = <<>>
  /\ failed = FALSE

\* getIncrementLevelFromTitle(title), lines 97-107
Resolve ==
  /\ pc = "title"
  /\ incrementLevel' = getIncrementLevelFromTitle(title)
  /\ pc' = "resolved"
  /\ UNCHANGED <<source, prefix, includePrereleases, res, allVersions,
                 filteredAndSortedVersions, currentVersion, title, nextVersion,
                 error, outputs, failed>>

TitleNext == Resolve

SpecTitle == InitTitle /\ [][TitleNext]_vars

----------------------------------------------------------------------------
(* What the properties are stated with *)

\* m occurs in t: at some position the characters of t are those of m
Contains(t, m) ==
  \E i \in 1..(Len(t) - Len(m) + 1) : \A k \in 1..Len(m) : t[i + k - 1] = m[k]

\* the name has a prerelease or build suffix: "-" or "+" and more, behind a digit
CarriesSuffix(raw) ==
  \E i \in 2..(Len(raw) - 1) : raw[i] \in {"-", "+"} /\ raw[i - 1] \in Digit

AllDigits(s, i, j) == i <= j /\ \A k \in i..j : s[k] \in Digit

\* s[i..j] is digits.digits.digits with its dots at p and q, and the last
\* group is not followed by another digit
TripleAt(s, i, p, q, j) ==
  /\ AllDigits(s, i, p - 1) /\ s[p] = "."
  /\ AllDigits(s, p + 1, q - 1) /\ s[q] = "."
  /\ AllDigits(s, q + 1, j)
  /\ (j = Len(s) \/ s[j + 1] \notin Digit)

StartsTriple(s, i) ==
  \E p \in (i + 1)..Len(s) : \E q \in (p + 2)..Len(s) :
    \E j \in (q + 1)..Len(s) : TripleAt(s, i, p, q, j)

RECURSIVE StripZeros(_)
\* the digits of a group without its leading zeros
StripZeros(g) == IF Len(g) > 1 /\ g[1] = "0" THEN StripZeros(Tail(g)) ELSE g

\* the semantic version sv has the numbers of the groups g1, g2, g3 and
\* neither prerelease nor build
HasNumbers(sv, g1, g2, g3) ==
  /\ NumToString(sv.major) = StripZeros(g1)
  /\ NumToString(sv.minor) = StripZeros(g2)
  /\ NumToString(sv.patch) = StripZeros(g3)
  /\ sv.prerelease = <<>> /\ sv.build = <<>>

\* version is what the name raw parses to by the specification: the numbers
\* of the leftmost digits.digits.digits in raw, 0.0.0 without one; raw kept
ParsedAsSpecified(version, raw) ==
  /\ version.raw = raw
  /\ IF \E i \in 1..Len(raw) : StartsTriple(raw, i)
     THEN \E i \in 1..Len(raw) :
            /\ \A h \in 1..(i - 1) : ~StartsTriple(raw, h)
            /\ \E p \in (i + 1)..Len(raw) : \E q \in (p + 2)..Len(raw) :
                 \E j \in (q + 1)..Len(raw) :
                   /\ TripleAt(raw, i, p, q, j)
                   /\ HasNumbers(version.semver, SubSeq(raw, i, p - 1),
                                 SubSeq(raw, p + 1, q - 1), SubSeq(raw, q + 1, j))
     ELSE HasNumbers(version.semver, <<"0">>, <<"0">>, <<"0">>)

\* b = a + 1 on numbers: the digits behind some place are nines in a and
\* zeros in b, the digit at that place is one more, the others are the same;
\* or a is all nines and b is 1 and as many zeros
IsSucc(a, b) ==
  \/ /\ Len(b) = Len(a)
     /\ \E k \in 1..Len(a) :
          /\ b[k] = a[k] + 1
          /\ \A h \in 1..(k - 1) : b[h] = a[h]
          /\ \A h \in (k + 1)..Len(a) : a[h] = 9 /\ b[h] = 0
  \/ /\ Len(b) = Len(a) + 1
     /\ \A h \in 1..Len(a) : a[h] = 9
     /\ b[1] = 1 /\ \A h \in 2..Len(b) : b[h] = 0

\* a ranks below b in semantic-version precedence
Below(a, b) ==
  \/ NumLess(a.major, b.major)
  \/ a.major = b.major /\ NumLess(a.minor, b.minor)
  \/ a.major = b.major /\ a.minor = b.minor /\ NumLess(a.patch, b.patch)
  \/ /\ a.major = b.major /\ a.minor = b.minor /\ a.patch = b.patch
     /\ a.prerelease # <<>> /\ b.prerelease = <<>>

\* the two outputs of a run that emitted cur and next
Emitted(cur, next) == <<<<"currentVersion", cur>>, <<"nextVersion", next>>>>

ScenarioLabels == <<Str_v100, Str_v110, Str_v200beta>>

----------------------------------------------------------------------------
(* The properties *)

\* C1: with includePrereleases false a label with a prerelease or build
\* suffix is never the current version; for the labels v1.0.0, v1.1.0,
\* v2.0.0-beta, prefix v and message "fix (PATCH)" the run emits
\* currentVersion 1.1.0 and nextVersion 1.1.1.
C1_PrereleaseNeverCurrent ==
  /\ (currentVersion # Undefined /\ ~includePrereleases)
       => ~CarriesSuffix(currentVersion.raw)
  /\ (/\ pc = "done" /\ res = ScenarioLabels /\ prefix = <<"v">>
      /\ ~includePrereleases /\ title = <<"f", "i", "x", " ">> \o PATCH)
       => outputs = Emitted(Str_110, <<"1", ".", "1", ".", "1">>)

\* C2: with includePrereleases true a top-ranked prerelease label is emitted
\* with its suffix; for the labels v1.0.0, v1.1.0, v2.0.0-beta, prefix v and
\* message "(MAJOR) rewrite" the run emits currentVersion 2.0.0-beta and
\* nextVersion 3.0.0.
C2_PrereleaseEmittedInFull ==
  /\ (/\ pc = "done" /\ outputs # <<>> /\ includePrereleases
      /\ CarriesSuffix(currentVersion.raw))
       => CarriesSuffix(outputs[1][2])
  /\ (/\ pc = "done" /\ res = ScenarioLabels /\ prefix = <<"v">>
      /\ includePrereleases
      /\ title = MAJOR \o <<" ", "r", "e", "w", "r", "i", "t", "e">>)
       => outputs = Emitted(<<"2", ".", "0", ".", "0", "-", "b", "e", "t", "a">>,
                            <<"3", ".", "0", ".", "0">>)

\* C3: constructing a Version never raises, whatever the label, and gives a
\* well-formed semantic version.
C3_ParsingNeverFails ==
  /\ pc # "threw"
  /\ pc = "constructed" =>
       /\ currentVersion.raw = res[1]
       /\ \A n \in {currentVersion.semver.major, currentVersion.semver.minor,
                    currentVersion.semver.patch} :
            IsNumericIdentifier(NumToString(n))

\* C4: with a source other than tags and releases the run reports a failure,
\* emits no output, and has not retrieved, parsed, filtered or bumped
\* anything.
C4_InvalidSourceFails ==
  source \notin {"tags", "releases"} =>
    /\ pc \in {"start", "catch", "done"}
    /\ pc = "done" => failed
    /\ outputs = <<>>
    /\ res = <<>> /\ allVersions = <<>> /\ filteredAndSortedVersions = <<>>
    /\ currentVersion = Undefined /\ nextVersion = Undefined
    /\ incrementLevel = ""

C4_Witness ==
  pc = "done" /\ source = "commits" /\ failed /\ outputs = <<>>

\* C5 as stated: when no label survives filtering the run does not fail and
\* emits currentVersion 0.0.0 and nextVersion 0.0.1.
C5_EmptyGivesPatchBump ==
  (pc = "done" /\ currentVersion # Undefined /\ filteredAndSortedVersions = <<>>)
    => ~failed /\ outputs = Emitted(Str_000, <<"0", ".", "0", ".", "1">>)

\* C5 amended: when no label survives filtering the run does not fail and
\* emits currentVersion 0.0.0 and, as nextVersion, 0.0.0 bumped by the level
\* of the commit message: 1.0.0 if it contains (MAJOR), else 0.1.0 if it
\* contains (MINOR), else 0.0.1.
C5_EmptyGivesBumpOfZero ==
  (pc = "done" /\ currentVersion # Undefined /\ filteredAndSortedVersions = <<>>)
    => /\ ~failed
       /\ outputs = Emitted(Str_000,
            IF Contains(title, MAJOR) THEN <<"1", ".", "0", ".", "0">>
            ELSE IF Contains(title, MINOR) THEN <<"0", ".", "1", ".", "0">>
            ELSE <<"0", ".", "0", ".", "1">>)

C5_Witness ==
  /\ pc = "done" /\ currentVersion # Undefined
  /\ filteredAndSortedVersions = <<>> /\ Len(res) > 0
  /\ Contains(title, MAJOR) /\ ~failed /\ Len(outputs) = 2

\* the Version the run starts from when nothing is left: new Version('0.0.0')
ZeroVersion ==
  [raw |-> Str_000,
   semver |-> [raw |-> Str_000, major |-> Zero, minor |-> Zero, patch |-> Zero,
               prerelease |-> <<>>, build |-> <<>>]]

\* the three conditions of the filter on a Version
Kept(version, p, incl) ==
  /\ Coerce(version.raw) # NullSemVer
  /\ ~incl => version.semver.prerelease = <<>> /\ version.semver.build = <<>>
  /\ Len(p) <= Len(version.raw) /\ \A k \in 1..Len(p) : version.raw[k] = p[k]

\* C6: filterAndSortVersions returns exactly the Versions that meet the three
\* conditions, each once, highest precedence first, Versions of equal
\* precedence in their input order.
C6_FilterAndSortExact ==
  pc = "bump" =>
    LET in == allVersions
        out == filteredAndSortedVersions
        Keep == {i \in 1..Len(in) : Kept(in[i], prefix, includePrereleases)}
        n == Cardinality(Keep)
    IN /\ Len(out) = n
       /\ \E idx \in [1..n -> Keep] :
            /\ \A a, b \in 1..n : a # b => idx[a] # idx[b]
            /\ \A k \in 1..n : out[k] = in[idx[k]]
            /\ \A k \in 1..(n - 1) :
                 /\ ~Below(out[k].semver, out[k + 1].semver)
                 /\ ~Below(out[k + 1].semver, out[k].semver) => idx[k] < idx[k + 1]

\* a run where the order changed and two Versions of equal precedence, from
\* different names, were kept in their input order
C6_Witness ==
  /\ pc = "bump"
  /\ Len(allVersions) = 3
  /\ allVersions[1].raw = Str_v3 /\ allVersions[2].raw = Str_110
  /\ allVersions[3].raw = Str_v110
  /\ Len(filteredAndSortedVersions) = 3
  /\ filteredAndSortedVersions[1].raw = Str_110
  /\ filteredAndSortedVersions[2].raw = Str_v110
  /\ filteredAndSortedVersions[3].raw = Str_v3

\* C7: getIncrementLevelFromTitle returns major if the text contains (MAJOR),
\* else minor if it contains (MINOR), else patch, wherever the markers stand.
C7_LevelByPrecedence ==
  pc = "resolved" =>
    incrementLevel = IF Contains(title, MAJOR) THEN "major"
                     ELSE IF Contains(title, MINOR) THEN "minor"
                     ELSE "patch"

\* a text with (MINOR) first and (MAJOR) behind it, resolved to major
C7_Witness ==
  /\ pc = "resolved" /\ incrementLevel = "major"
  /\ Len(title) > 7 /\ SubSeq(title, 1, 7) = MINOR /\ Contains(title, MAJOR)

\* the bumped Version is the increment of the Version it was made from
BumpedIsIncrement ==
  pc = "bumped" =>
    LET c == currentVersion.semver
        n == nextVersion.semver
        canonical == NumToString(n.major) \o <<".">> \o NumToString(n.minor)
                       \o <<".">> \o NumToString(n.patch)
    IN /\ incrementLevel = "major" =>
            IsSucc(c.major, n.major) /\ n.minor = <<0>> /\ n.patch = <<0>>
       /\ incrementLevel = "minor" =>
            n.major = c.major /\ IsSucc(c.minor, n.minor) /\ n.patch = <<0>>
       /\ incrementLevel = "patch" =>
            n.major = c.major /\ n.minor = c.minor /\ IsSucc(c.patch, n.patch)
       /\ n.prerelease = <<>> /\ n.build = <<>>
       /\ nextVersion.raw = canonical /\ n.raw = canonical

\* C8: bumpVersion never raises and returns the Version of (M+1).0.0,
\* M.(m+1).0 or M.m.(p+1), without prerelease and build, whose raw is the
\* canonical string of that version.
C8_BumpNeverRaises == pc # "bumpThrew" /\ BumpedIsIncrement

\* a Version the constructor returned is the one the specification names
ConstructedAsSpecified ==
  pc = "constructed" => ParsedAsSpecified(currentVersion, res[1])

\* C9: every label parses to the Version with the numbers of its leftmost
\* digits.digits.digits, to 0.0.0 without one, and raw is the label.
C9_ParsesLeftmostTriple == pc # "threw" /\ ConstructedAsSpecified

\* C10: bumpVersion leaves its argument as it was, so what the run emits as
\* currentVersion is the version from before the bump, and is not nextVersion.
C10_BumpLeavesArgument ==
  LET before == IF Len(filteredAndSortedVersions) > 0
                THEN filteredAndSortedVersions[1] ELSE ZeroVersion
  IN (pc \in {"emit", "catch", "done"} /\ currentVersion # Undefined) =>
       /\ currentVersion = before
       /\ Len(outputs) = 2 =>
            /\ outputs[1] = <<"currentVersion", before.semver.raw>>
            /\ outputs[2][2] # outputs[1][2]

C10_Witness ==
  /\ pc = "done" /\ Len(outputs) = 2 /\ Len(filteredAndSortedVersions) > 1
  /\ incrementLevel = "minor"

=============================================================================
